---- MODULE Spec2Model ----
(***************************************************************************)
(* Virtual try-on client: the prediction lifecycle (submit -> poll ->      *)
(* resolve) of the three App variants of the repository, as one state      *)
(* machine.                                                                *)
(*                                                                         *)
(*   variant "url"    : src/src/App.tsx lines 1-260   (URL / file input)   *)
(*   variant "inline" : src/unnamed/part_000          (inline camera)      *)
(*   variant "modal"  : src/src/App.tsx lines 261-751 (CameraModal)        *)
(*                                                                         *)
(* Each action is one run of an event handler, or of the continuation of   *)
(* an async handler after an await, together with the re-render and the    *)
(* effects that follow it.  JavaScript values are strings: Null and        *)
(* Undefined stand for null and undefined, "" for the empty string.        *)
(***************************************************************************)
EXTENDS Integers, Sequences, FiniteSets, TLC

VARIABLES
    variant,           \* which App is running
    mounted,           \* the mount effect (query parameter) has run
    isLoading,         \* useState(false)
    modelPreview,      \* useState(null)
    generatedResult,   \* useState(null)
    predictionId,      \* useState(null)
    predictionStatus,  \* useState(null)
    garmentUrl,        \* useState('')
    error,             \* useState(null)   (banner variants only)
    expiry,            \* pending setTimeout(() => setError(null), 5000)
    intervals,         \* live window.setInterval(checkPredictionStatus, 5000)
    readers,           \* FileReaders whose read has not ended
    submitReqs,        \* POST /run requests awaiting their response
    statusReqs,        \* GET /status/{id} requests awaiting their response
    nextJob,           \* ids the remote service has issued
    polls,             \* per job: non-terminal statuses the service reported
    last,              \* the handler that ran last, its argument and its response
    showCamera,        \* useState(false): the CameraModal is mounted
    facingMode,        \* CameraModal: useState('user')
    instance,          \* how many times the CameraModal has been mounted
    streamRef,         \* streamRef.current of the mounted CameraModal, 0 for null
    streams            \* per getUserMedia call: its state, caller and camera

vars == <<variant, mounted, isLoading, modelPreview,
          generatedResult, predictionId, predictionStatus, garmentUrl, error,
          expiry, intervals, readers, submitReqs, statusReqs, nextJob, polls,
          last, showCamera, facingMode, instance, streamRef, streams>>

\* the state of the CameraModal
camVars == <<showCamera, facingMode, instance, streamRef, streams>>

----------------------------------------------------------------------------
(* Bounds *)

MaxJobs == 2

MaxPolls == 2

MaxInFlight == 2

MaxExpiry == 2

MaxStreams == 3

MaxOpens == 2

----------------------------------------------------------------------------
(* JavaScript values *)

Null == "null"

Undefined == "undefined"

\* ToBoolean of the values that occur here
Truthy(v) == v \notin {Null, Undefined, ""}

Variants == {"url", "inline", "modal"}

HasBanner == variant \in {"inline", "modal"}

JobNames == <<"job1", "job2", "job3", "job4", "job5">>

JobIds == {JobNames[n] : n \in 1..MaxJobs}

----------------------------------------------------------------------------
(* Inputs: the page's query parameter, files, URLs typed by the user *)

\* params.get('garment_image'): null when the parameter is absent, '' when it
\* is given without a value
Queries == {Null, "", "not a url", "https://shop.example/shirt.png"}

\* the strings new URL(s) accepts
ParsableURLs == {"https://shop.example/shirt.png", "https://me.example/me.jpg"}

ModelUrls == {"", "https://me.example/me.jpg"}

\* a File: its declared type, and what readAsDataURL yields for it
Files == {[major |-> "image", dataUrl |-> "data:image/png;base64,AA"],
          [major |-> "text",  dataUrl |-> "data:text/plain;base64,BB"]}

\* file.type.startsWith('image/')
IsImageType(f) == f.major = "image"

----------------------------------------------------------------------------
(* Responses of the remote service.  net: fetch resolved; ok: response.ok;  *)
(* json: the body parses; err, id, status, output: fields of the body       *)

ErrTexts == {"pose not detected"}

StatusValues == {"starting", "processing", "completed", "failed", "canceled"}

NoOutput == [present |-> FALSE, array |-> FALSE, items |-> <<>>]

Outputs == {NoOutput,
            [present |-> TRUE, array |-> FALSE, items |-> <<>>],
            [present |-> TRUE, array |-> TRUE,  items |-> <<>>],
            [present |-> TRUE, array |-> TRUE,  items |-> <<"r1.jpg", "r2.jpg">>]}

NoResp == [net |-> FALSE, ok |-> FALSE, json |-> FALSE, err |-> Undefined,
           id |-> Undefined, status |-> Undefined, output |-> NoOutput]

NetFail == NoResp

Body(o, e, i, st, out) ==
    [net |-> TRUE, ok |-> o, json |-> TRUE, err |-> e, id |-> i, status |-> st,
     output |-> out]

\* a response whose body is not JSON
Unparseable == [NoResp EXCEPT !.net = TRUE, !.ok = TRUE]

\* the responses POST /run can get when the service would issue `fresh`:
\* no response, a body that does not parse, HTTP errors with and without an
\* error text, and HTTP success or error with {error}, {} or {id}
SubmitResponses(fresh) ==
    {NetFail, Unparseable} \cup
    {Body(o, e, Undefined, Undefined, NoOutput) :
        o \in BOOLEAN, e \in ErrTexts \cup {Undefined}} \cup
    {Body(o, Undefined, i, Undefined, NoOutput) : o \in BOOLEAN, i \in fresh}

\* the responses GET /status/{id} can get: no response, a body that does not
\* parse, HTTP errors with {error} or a status, and HTTP success with {error},
\* {}, a status, {status: failed, error}, or completed with each output
StatusResponses ==
    {NetFail, Unparseable} \cup
    {Body(FALSE, e, Undefined, Undefined, NoOutput) : e \in ErrTexts} \cup
    {Body(FALSE, Undefined, Undefined, "processing", NoOutput)} \cup
    {Body(TRUE, e, Undefined, st, NoOutput) :
        e \in ErrTexts, st \in {Undefined, "failed"}} \cup
    {Body(TRUE, Undefined, Undefined, st, NoOutput) :
        st \in (StatusValues \ {"completed"}) \cup {Undefined}} \cup
    {Body(TRUE, Undefined, Undefined, "completed", out) : out \in Outputs}

\* data.output[0]
First(o) == IF Len(o.items) >= 1 THEN o.items[1] ELSE Undefined

\* !data.output || !Array.isArray(data.output) || data.output.length === 0
UnusableOutput(o) == ~o.present \/ ~o.array \/ Len(o.items) = 0

----------------------------------------------------------------------------
(* The notification banner *)

NoError == [message |-> <<>>, type |-> "none"]

Contains(msg, text) == \E i \in 1..Len(msg) : msg[i] = text

----------------------------------------------------------------------------
(* What the code after `await fetch(...)` decides, per variant *)

Accept(i) == [accept |-> TRUE, id |-> i, message |-> <<>>]

Reject(msg) == [accept |-> FALSE, id |-> Undefined, message |-> msg]

\* startPrediction after the response: accept = setPredictionId(id) and
\* setPredictionStatus('starting'); otherwise the catch block with `message`
SubmitOutcome(v, r) ==
    CASE v = "url" ->
           IF ~r.net THEN Reject(<<"Failed to fetch">>)
           ELSE IF ~r.json THEN Reject(<<"Unexpected token">>)
           ELSE IF Truthy(r.err) THEN Reject(<<r.err>>)
           ELSE Accept(r.id)
      [] v = "inline" ->
           IF ~r.net THEN Reject(<<"Failed to fetch">>)
           ELSE IF ~r.ok THEN
               (IF r.json /\ Truthy(r.err) THEN Reject(<<r.err>>)
                ELSE Reject(<<"API request failed with status">>))
           ELSE IF ~r.json THEN Reject(<<"Unexpected token">>)
           ELSE IF Truthy(r.err) THEN Reject(<<"API Error: ", r.err>>)
           ELSE IF ~Truthy(r.id) THEN Reject(<<"Invalid response: missing prediction ID">>)
           ELSE Accept(r.id)
      [] v = "modal" ->
           IF ~r.net THEN Reject(<<"Failed to fetch">>)
           ELSE IF ~r.json THEN Reject(<<"Unexpected token">>)
           ELSE IF ~r.ok THEN
               (IF Truthy(r.err) THEN Reject(<<r.err>>)
                ELSE Reject(<<"API request failed with status">>))
           ELSE IF Truthy(r.err) THEN Reject(<<r.err>>)
           ELSE IF ~Truthy(r.id) THEN Reject(<<"Invalid response: missing prediction ID">>)
           ELSE Accept(r.id)

\* kinds of end of checkPredictionStatus:
\*   "swallowed": the catch block that only logs (variant "url")
\*   "thrown"   : the catch block that shows the error, clears loading and id
\*   "completed": the completed branch;  "failed": the failed branch that
\*   clears loading and id (variant "url");  "continue": neither branch
\* setStatus: setPredictionStatus(data.status) ran before the end
Outcome(k, st, msg) == [kind |-> k, setStatus |-> st, message |-> msg]

\* the catch block's fallback text in place of the thrown error's message
ApiErrorGeneric(v, e) == <<"Failed to check prediction status">>

\* throw new Error(`API Error: ${data.error}`), or new Error(data.error)
ApiErrorMessage(v, e) == IF v = "inline" THEN <<"API Error: ", e>> ELSE <<e>>

\* the branch data.status === 'completed'
CompletedOutcome(v, r) ==
    IF v = "url"
    THEN (IF r.output.present THEN Outcome("completed", TRUE, <<>>)
          ELSE Outcome("continue", TRUE, <<>>))
    ELSE (IF UnusableOutput(r.output)
          THEN Outcome("thrown", TRUE,
                       <<"Invalid response: missing or empty output array">>)
          ELSE Outcome("completed", TRUE, <<>>))

\* the branch data.status === 'failed'
FailedOutcome(v, r) ==
    IF v = "url" THEN Outcome("failed", TRUE, <<>>)
    ELSE Outcome("thrown", TRUE,
                 <<IF Truthy(r.err) THEN r.err
                   ELSE "Prediction failed without specific error message">>)

StatusOutcome(v, r) ==
    CASE v = "url" ->
           IF ~r.net \/ ~r.json THEN Outcome("swallowed", FALSE, <<>>)
           ELSE IF r.status = "completed" THEN CompletedOutcome(v, r)
           ELSE IF r.status = "failed" THEN FailedOutcome(v, r)
           ELSE Outcome("continue", TRUE, <<>>)
      [] v = "inline" ->
           IF ~r.net THEN Outcome("thrown", FALSE, <<"Failed to fetch">>)
           ELSE IF ~r.ok THEN
               (IF r.json /\ Truthy(r.err) THEN Outcome("thrown", FALSE, <<r.err>>)
                ELSE Outcome("thrown", FALSE, <<"Status check failed with status">>))
           ELSE IF ~r.json THEN Outcome("thrown", FALSE, <<"Unexpected token">>)
           ELSE IF Truthy(r.err) THEN Outcome("thrown", FALSE, ApiErrorMessage(v, r.err))
           ELSE IF ~Truthy(r.status)
                THEN Outcome("thrown", FALSE, <<"Invalid response: missing status">>)
           ELSE IF r.status = "completed" THEN CompletedOutcome(v, r)
           ELSE IF r.status = "failed" THEN FailedOutcome(v, r)
           ELSE Outcome("continue", TRUE, <<>>)
      [] v = "modal" ->
           IF ~r.net THEN Outcome("thrown", FALSE, <<"Failed to fetch">>)
           ELSE IF ~r.json THEN Outcome("thrown", FALSE, <<"Unexpected token">>)
           ELSE IF ~r.ok THEN
               (IF Truthy(r.err) THEN Outcome("thrown", FALSE, <<r.err>>)
                ELSE Outcome("thrown", FALSE, <<"Status check failed with status">>))
           ELSE IF Truthy(r.err) THEN Outcome("thrown", FALSE, ApiErrorMessage(v, r.err))
           ELSE IF ~Truthy(r.status)
                THEN Outcome("thrown", FALSE, <<"Invalid response: missing status">>)
           ELSE IF r.status = "completed" THEN CompletedOutcome(v, r)
           ELSE IF r.status = "failed" THEN FailedOutcome(v, r)
           ELSE Outcome("continue", TRUE, <<>>)

----------------------------------------------------------------------------
(* The polling effect: useEffect(..., [predictionId, predictionStatus,      *)
(* checkPredictionStatus]); checkPredictionStatus changes with predictionId *)

\* an effect that polls only until the first status update
ShouldPollStartingOnly(id, st) == Truthy(id) /\ st = "starting"

ShouldPoll(id, st) == Truthy(id) /\ st # "completed" /\ st # "failed"

\* an effect without the cleanup function
PollEffectNoCleanup(n, oldId, oldSt, newId, newSt) ==
    IF oldId = newId /\ oldSt = newSt THEN n
    ELSE IF ShouldPoll(newId, newSt) THEN n + 1 ELSE n

\* the live intervals after a render that took (oldId, oldSt) to (newId, newSt):
\* when a dependency changed, the cleanup of the previous run clears the
\* interval that run created, and the effect runs again
PollEffect(n, oldId, oldSt, newId, newSt) ==
    IF oldId = newId /\ oldSt = newSt THEN n
    ELSE LET cleaned == IF ShouldPoll(oldId, oldSt) THEN n - 1 ELSE n
         IN  IF ShouldPoll(newId, newSt) THEN cleaned + 1 ELSE cleaned

RECURSIVE InFlightUpTo(_)

\* status requests awaiting a response, over the first n job ids
InFlightUpTo(n) ==
    IF n = 0 THEN 0 ELSE statusReqs[JobNames[n]] + InFlightUpTo(n - 1)

InFlight == InFlightUpTo(MaxJobs)

\* requests of either kind awaiting a response
Awaited == submitReqs + InFlight

Did(op, job, resp) == [op |-> op, job |-> job, resp |-> resp]

----------------------------------------------------------------------------
(* The camera.  A getUserMedia call is numbered in the order of the calls;  *)
(* streams[n] holds its state (unused, pending, live, stopped, rejected),   *)
(* the CameraModal instance that made it and the facingMode it asked for    *)

Facings == {"user", "environment"}

NoStream == [state |-> "unused", inst |-> 0, facing |-> "user"]

\* getUserMedia calls made so far
Calls(ss) == Cardinality({n \in 1..MaxStreams : ss[n].state # "unused"})

\* stream.getTracks().forEach(track => track.stop()) on streamRef.current
StopStream(ss, ref) ==
    IF ref # 0 /\ ss[ref].state = "live"
    THEN [ss EXCEPT ![ref].state = "stopped"] ELSE ss

\* startCamera up to its await: the stream in streamRef.current is stopped and
\* getUserMedia({video: {facingMode}}) is called
StartCamera(ss, ref, inst, facing) ==
    [StopStream(ss, ref) EXCEPT ![Calls(ss) + 1] =
        [state |-> "pending", inst |-> inst, facing |-> facing]]

\* canvas.toDataURL('image/jpeg', 0.8) of a frame of the camera `facing`,
\* drawn mirrored or not
Frame(facing, mirrored) ==
    CASE facing = "user" /\ mirrored         -> "data:image/jpeg;front,mirrored"
      [] facing = "user" /\ ~mirrored        -> "data:image/jpeg;front"
      [] facing = "environment" /\ mirrored  -> "data:image/jpeg;back,mirrored"
      [] OTHER                               -> "data:image/jpeg;back"

\* toDataURL of the 0 x 0 canvas of a video that has no stream
BlankFrame == "data:,"

\* takePhoto: ctx.translate(canvas.width, 0); ctx.scale(-1, 1) before drawImage
Mirrors(facing) == TRUE

----------------------------------------------------------------------------
(* Initial state: the useState initial values, before the mount effect *)

Init ==
    /\ variant \in Variants
    /\ mounted = FALSE
    /\ isLoading = FALSE
    /\ modelPreview = Null
    /\ generatedResult = Null
    /\ predictionId = Null
    /\ predictionStatus = Null
    /\ garmentUrl = ""
    /\ error = NoError
    /\ expiry = 0
    /\ intervals = 0
    /\ readers = {}
    /\ submitReqs = 0
    /\ statusReqs = [j \in JobIds |-> 0]
    /\ nextJob = 0
    /\ polls = [j \in JobIds |-> 0]
    /\ last = Did("init", "", NoResp)
    /\ showCamera = FALSE
    /\ facingMode = "user"
    /\ instance = 0
    /\ streamRef = 0
    /\ streams = [n \in 1..MaxStreams |-> NoStream]

\* showError(message, type): the banner variants only
ShowError(msg, type) ==
    /\ expiry < MaxExpiry
    /\ error' = [message |-> msg, type |-> type]
    /\ expiry' = expiry + 1

\* the mount effect: the garment_image query parameter
Mount(query) ==
    /\ ~mounted
    /\ mounted' = TRUE
    /\ IF Truthy(query) /\ query \in ParsableURLs
       THEN garmentUrl' = query /\ UNCHANGED <<error, expiry>>
       ELSE IF Truthy(query) /\ HasBanner
       THEN ShowError(<<"Invalid garment image URL provided">>, "warning")
            /\ UNCHANGED garmentUrl
       ELSE UNCHANGED <<garmentUrl, error, expiry>>
    /\ last' = Did("mount", query, NoResp)
    /\ UNCHANGED <<variant, isLoading, modelPreview,
                   generatedResult, predictionId, predictionStatus, intervals,
                   readers, submitReqs, statusReqs, nextJob, polls>>
    /\ UNCHANGED camVars

\* Load URL: modelUrl is the text in the URL input, which the user types before
\* the click (Try Again empties it)
HandleLoadModel(modelUrl) ==
    /\ mounted /\ variant = "url"
    /\ modelPreview' = IF Truthy(modelUrl) THEN modelUrl ELSE modelPreview
    /\ last' = Did("loadModel", "", NoResp)
    /\ UNCHANGED <<variant, mounted, isLoading,
                   generatedResult, predictionId, predictionStatus, garmentUrl,
                   error, expiry, intervals, readers, submitReqs, statusReqs,
                   nextJob, polls>>
    /\ UNCHANGED camVars

\* event.target.files?.[0] is undefined
NoFile == [major |-> "", dataUrl |-> ""]

HandleFileUpload(f) ==
    /\ mounted
    /\ IF f = NoFile
       THEN /\ IF HasBanner THEN ShowError(<<"No file selected">>, "warning")
                            ELSE UNCHANGED <<error, expiry>>
            /\ UNCHANGED readers
       ELSE IF HasBanner /\ ~IsImageType(f)
       THEN /\ ShowError(<<"Please select an image file">>, "error")
            /\ UNCHANGED readers
       ELSE /\ readers' = readers \cup {f}
            /\ UNCHANGED <<error, expiry>>
    /\ last' = Did("fileUpload", "", NoResp)
    /\ UNCHANGED <<variant, mounted, isLoading, modelPreview,
                   generatedResult, predictionId, predictionStatus, garmentUrl,
                   intervals, submitReqs, statusReqs, nextJob, polls>>
    /\ UNCHANGED camVars

\* the end of a read: the reader's error event (a failed read), then loadend
ReadEnd(f, success) ==
    /\ f \in readers
    /\ readers' = readers \ {f}
    /\ modelPreview' = IF success THEN f.dataUrl ELSE Null
    /\ IF HasBanner
       THEN /\ success \/ expiry < MaxExpiry
            /\ expiry' = IF success THEN expiry ELSE expiry + 1
            /\ error' = NoError
       ELSE UNCHANGED <<error, expiry>>
    /\ last' = Did(IF success THEN "readEnd" ELSE "readError", "", NoResp)
    /\ UNCHANGED <<variant, mounted, isLoading,
                   generatedResult, predictionId, predictionStatus, garmentUrl,
                   intervals, submitReqs, statusReqs, nextJob, polls>>
    /\ UNCHANGED camVars

\* startPrediction without the guard on the garment URL
MissingInputModelOnly ==
    IF ~Truthy(modelPreview) THEN <<"Please upload or take a photo of the model">>
    ELSE <<>>

\* the guards at the head of startPrediction: the warning to show, <<>> if none
MissingInput ==
    IF ~Truthy(modelPreview) THEN <<"Please upload or take a photo of the model">>
    ELSE IF ~Truthy(garmentUrl) THEN <<"Please provide a garment image URL">>
    ELSE <<>>

\* startPrediction up to its await.  The control that calls it is disabled
\* while isLoading; the guard on the inputs is the function's own.
StartPrediction ==
    /\ mounted /\ ~isLoading
    /\ IF MissingInput # <<>>
       THEN /\ IF HasBanner THEN ShowError(MissingInput, "warning")
                            ELSE UNCHANGED <<error, expiry>>
            /\ UNCHANGED <<isLoading, submitReqs>>
       ELSE /\ Awaited < MaxInFlight
            /\ isLoading' = TRUE
            /\ error' = NoError
            /\ submitReqs' = submitReqs + 1
            /\ UNCHANGED expiry
    /\ last' = Did("startPrediction", "", NoResp)
    /\ UNCHANGED <<variant, mounted, modelPreview,
                   generatedResult, predictionId, predictionStatus, garmentUrl,
                   intervals, readers, statusReqs, nextJob, polls>>
    /\ UNCHANGED camVars

\* startPrediction from the response of POST /run on
SubmitDone(r) ==
    LET o == SubmitOutcome(variant, r) IN
    /\ submitReqs > 0
    /\ submitReqs' = submitReqs - 1
    /\ nextJob' = IF r.id \in JobIds THEN nextJob + 1 ELSE nextJob
    /\ IF o.accept
       THEN /\ predictionId' = o.id
            /\ predictionStatus' = "starting"
            /\ UNCHANGED <<isLoading, error, expiry>>
       ELSE /\ isLoading' = FALSE
            /\ IF HasBanner THEN ShowError(o.message, "error")
                            ELSE UNCHANGED <<error, expiry>>
            /\ UNCHANGED <<predictionId, predictionStatus>>
    /\ intervals' = PollEffect(intervals, predictionId, predictionStatus,
                               predictionId', predictionStatus')
    /\ last' = Did("submitResponse", "", r)
    /\ UNCHANGED <<variant, mounted, modelPreview,
                   generatedResult, garmentUrl, readers, statusReqs>>
    /\ UNCHANGED camVars

Fresh == IF nextJob < MaxJobs THEN {JobNames[nextJob + 1]} ELSE {}

SubmitResponse ==
    \E r \in SubmitResponses(Fresh) : SubmitDone(r) /\ UNCHANGED polls

\* the interval fires: checkPredictionStatus up to its await
PollTick ==
    /\ intervals > 0
    /\ IF Truthy(predictionId)
       THEN /\ Awaited < MaxInFlight
            /\ statusReqs' = [statusReqs EXCEPT ![predictionId] = @ + 1]
       ELSE UNCHANGED statusReqs
    /\ last' = Did("tick", predictionId, NoResp)
    /\ UNCHANGED <<variant, mounted, isLoading, modelPreview,
                   generatedResult, predictionId, predictionStatus, garmentUrl,
                   error, expiry, intervals, readers, submitReqs, nextJob, polls>>
    /\ UNCHANGED camVars

\* checkPredictionStatus from the response of GET /status/{j} on
StatusDone(j, r) ==
    LET o == StatusOutcome(variant, r) IN
    /\ statusReqs[j] > 0
    /\ statusReqs' = [statusReqs EXCEPT ![j] = @ - 1]
    /\ predictionStatus' = IF o.setStatus THEN r.status ELSE predictionStatus
    /\ CASE o.kind = "completed" ->
              /\ generatedResult' = First(r.output)
              /\ isLoading' = FALSE
              /\ predictionId' = Null
              /\ error' = NoError
              /\ UNCHANGED expiry
         [] o.kind = "failed" ->
              /\ isLoading' = FALSE
              /\ predictionId' = Null
              /\ UNCHANGED <<generatedResult, error, expiry>>
         [] o.kind = "thrown" ->
              /\ ShowError(o.message, "error")
              /\ isLoading' = FALSE
              /\ predictionId' = Null
              /\ UNCHANGED generatedResult
         [] OTHER ->
              UNCHANGED <<generatedResult, isLoading, predictionId, error, expiry>>
    /\ intervals' = PollEffect(intervals, predictionId, predictionStatus,
                               predictionId', predictionStatus')
    /\ last' = Did("statusResponse", j, r)
    /\ UNCHANGED <<variant, mounted, modelPreview, garmentUrl,
                   readers, submitReqs, nextJob>>
    /\ UNCHANGED camVars

StatusResponse ==
    \E j \in JobIds, r \in StatusResponses : StatusDone(j, r) /\ UNCHANGED polls

\* Try Again without setPredictionStatus(null)
TryAgainKeepsStatus ==
    [modelPreview |-> Null, generatedResult |-> Null, predictionId |-> Null,
     predictionStatus |-> predictionStatus, isLoading |-> FALSE]

\* the values Try Again sets
TryAgainState ==
    [modelPreview |-> Null, generatedResult |-> Null, predictionId |-> Null,
     predictionStatus |-> Null, isLoading |-> FALSE]

\* Try Again (rendered while generatedResult is set)
HandleTryAgain ==
    /\ mounted /\ Truthy(generatedResult)
    /\ modelPreview' = TryAgainState.modelPreview
    /\ generatedResult' = TryAgainState.generatedResult
    /\ predictionId' = TryAgainState.predictionId
    /\ predictionStatus' = TryAgainState.predictionStatus
    /\ error' = NoError
    /\ isLoading' = TryAgainState.isLoading
    /\ intervals' = PollEffect(intervals, predictionId, predictionStatus,
                               predictionId', predictionStatus')
    /\ last' = Did("tryAgain", predictionId, NoResp)
    /\ UNCHANGED <<variant, mounted, garmentUrl, expiry, readers,
                   submitReqs, statusReqs, nextJob, polls>>
    /\ UNCHANGED camVars

\* a timeout of showError fires: setError(null)
ExpireNotification ==
    /\ expiry > 0
    /\ expiry' = expiry - 1
    /\ error' = NoError
    /\ last' = Did("expire", "", NoResp)
    /\ UNCHANGED <<variant, mounted, isLoading, modelPreview,
                   generatedResult, predictionId, predictionStatus, garmentUrl,
                   intervals, readers, submitReqs, statusReqs, nextJob, polls>>
    /\ UNCHANGED camVars

\* what the camera handlers leave alone
lifeVars == <<variant, mounted, isLoading, generatedResult, predictionId,
              predictionStatus, garmentUrl, error, expiry, intervals, readers,
              submitReqs, statusReqs, nextJob, polls>>

\* cameraInputRef = useRef(null), which no element is given as its ref
CameraInputRef == Null

\* Take Photo in variant "inline": handleCameraUpload returns at its first
\* line, before it asks for the camera
HandleCameraUpload ==
    /\ mounted /\ variant = "inline"
    /\ ~Truthy(CameraInputRef)
    /\ last' = Did("cameraUpload", "", NoResp)
    /\ UNCHANGED <<modelPreview, lifeVars, camVars>>

\* Take Photo in variant "modal": setShowCamera(true); the CameraModal mounts
\* and its effect calls startCamera
OpenCamera ==
    /\ mounted /\ variant = "modal" /\ ~showCamera
    /\ instance < MaxOpens /\ Calls(streams) < MaxStreams
    /\ showCamera' = TRUE
    /\ instance' = instance + 1
    /\ facingMode' = "user"
    /\ streamRef' = 0
    /\ streams' = StartCamera(streams, 0, instance + 1, "user")
    /\ last' = Did("openCamera", "", NoResp)
    /\ UNCHANGED <<modelPreview, lifeVars>>

\* toggleCamera: facingMode changes, so startCamera changes; the effect's
\* cleanup (stopCamera) runs and the effect calls startCamera again
ToggleCamera ==
    /\ showCamera /\ Calls(streams) < MaxStreams
    /\ facingMode' = IF facingMode = "user" THEN "environment" ELSE "user"
    /\ streams' = StartCamera(StopStream(streams, streamRef), streamRef,
                              instance, facingMode')
    /\ last' = Did("toggleCamera", facingMode', NoResp)
    /\ UNCHANGED <<modelPreview, lifeVars, showCamera, instance, streamRef>>

\* App renders again while the modal is open (a notification expired, a poll
\* was answered, a read ended): onClose is a new function, so startCamera
\* changes and the effect runs as for toggleCamera
AppRender ==
    /\ showCamera /\ Calls(streams) < MaxStreams
    /\ streams' = StartCamera(StopStream(streams, streamRef), streamRef,
                              instance, facingMode)
    /\ last' = Did("appRender", "", NoResp)
    /\ UNCHANGED <<modelPreview, lifeVars, showCamera, facingMode, instance,
                   streamRef>>

\* startCamera from the end of getUserMedia call n on.  videoRef.current is
\* the video element while the instance that made the call is mounted, null
\* after; a rejection runs onClose(), which unmounts the modal that is open
AcquireDone(n, ok) ==
    /\ streams[n].state = "pending"
    /\ IF ok
       THEN /\ streams' = [streams EXCEPT ![n].state = "live"]
            /\ streamRef' = IF showCamera /\ streams[n].inst = instance
                            THEN n ELSE streamRef
            /\ UNCHANGED showCamera
       ELSE /\ showCamera' = FALSE
            /\ streams' = StopStream([streams EXCEPT ![n].state = "rejected"],
                                     streamRef)
            /\ streamRef' = 0
    /\ last' = Did(IF ok THEN "acquired" ELSE "acquireFailed",
                   streams[n].facing, NoResp)
    /\ UNCHANGED <<modelPreview, lifeVars, facingMode, instance>>

\* the shutter: takePhoto, with getContext('2d') returning a context or null
TakePhoto(ctx) ==
    /\ showCamera
    /\ IF ~ctx
       THEN /\ last' = Did("takePhotoNoContext", "", NoResp)
            /\ UNCHANGED <<modelPreview, camVars>>
       ELSE /\ modelPreview' =
                  IF streamRef = 0 THEN BlankFrame
                  ELSE Frame(streams[streamRef].facing,
                             Mirrors(streams[streamRef].facing))
            /\ streams' = StopStream(streams, streamRef)
            /\ showCamera' = FALSE
            /\ streamRef' = 0
            /\ last' = Did("takePhoto",
                           IF streamRef = 0 THEN "" ELSE streams[streamRef].facing,
                           NoResp)
            /\ UNCHANGED <<facingMode, instance>>
    /\ UNCHANGED lifeVars

\* the X button: onClose(); the unmount runs the effect's cleanup
CloseCamera ==
    /\ showCamera
    /\ showCamera' = FALSE
    /\ streams' = StopStream(streams, streamRef)
    /\ streamRef' = 0
    /\ last' = Did("closeCamera", "", NoResp)
    /\ UNCHANGED <<modelPreview, lifeVars, facingMode, instance>>

Next ==
    \/ \E q \in Queries : Mount(q)
    \/ \E u \in ModelUrls : HandleLoadModel(u)
    \/ \E f \in Files \cup {NoFile} : HandleFileUpload(f)
    \/ \E f \in Files, success \in BOOLEAN : ReadEnd(f, success)
    \/ StartPrediction
    \/ SubmitResponse
    \/ PollTick
    \/ StatusResponse
    \/ HandleTryAgain
    \/ ExpireNotification

Spec == Init /\ [][Next]_vars

\* The camera flows of the two variants that have a Take Photo button
CameraNext ==
    \/ \E q \in Queries : Mount(q)
    \/ HandleCameraUpload
    \/ OpenCamera
    \/ ToggleCamera
    \/ AppRender
    \/ \E n \in 1..MaxStreams, ok \in BOOLEAN : AcquireDone(n, ok)
    \/ \E ctx \in BOOLEAN : TakePhoto(ctx)
    \/ CloseCamera

CameraSpec == Init /\ [][CameraNext]_vars

\* the interval fires while it is live; a status request in flight is
\* answered or fails
FairSpec == Spec /\ WF_vars(PollTick) /\ WF_vars(StatusResponse)

----------------------------------------------------------------------------
(* The program with a remote service that behaves: every submit is answered *)
(* with a fresh id, every status request with starting/processing at most   *)
(* MaxPolls times per job and with completed and a usable output after      *)
(* that.  The user loads inputs and submits, and does not reset.            *)

GoodSubmitResponse ==
    \E i \in Fresh :
        /\ SubmitDone([NoResp EXCEPT !.net = TRUE, !.ok = TRUE, !.json = TRUE, !.id = i])
        /\ UNCHANGED polls

GoodStatusResponses(j) ==
    {r \in StatusResponses :
        /\ r.net /\ r.ok /\ r.json /\ r.err = Undefined
        /\ \/ r.status \in {"starting", "processing"} /\ polls[j] < MaxPolls
           \/ r.status = "completed" /\ ~UnusableOutput(r.output)}

GoodStatusResponse ==
    \E j \in JobIds : \E r \in GoodStatusResponses(j) :
        /\ StatusDone(j, r)
        /\ polls' = [polls EXCEPT ![j] = IF r.status = "completed" THEN MaxPolls
                                         ELSE @ + 1]

LiveNext ==
    \/ \E q \in Queries : Mount(q)
    \/ \E u \in ModelUrls : HandleLoadModel(u)
    \/ \E f \in Files \cup {NoFile} : HandleFileUpload(f)
    \/ \E f \in Files, success \in BOOLEAN : ReadEnd(f, success)
    \/ StartPrediction
    \/ GoodSubmitResponse
    \/ PollTick
    \/ GoodStatusResponse
    \/ ExpireNotification

\* the interval fires while it is live; a request in flight is answered
LiveSpec ==
    /\ Init /\ [][LiveNext]_vars
    /\ WF_vars(PollTick)
    /\ WF_vars(GoodStatusResponse)
    /\ WF_vars(GoodSubmitResponse)

Accepted(j) ==
    last.op = "submitResponse" /\ last.resp.id = j /\ predictionId = j

CompletedWith(j) ==
    /\ last.op = "statusResponse" /\ last.job = j
    /\ last.resp.status = "completed"
    /\ generatedResult = First(last.resp.output)
    /\ Truthy(generatedResult)
    /\ ~isLoading /\ predictionId = Null /\ intervals = 0

\* C1: with a service that behaves, under fair firing of the poll interval and
\* fair delivery of responses, every job whose submit was accepted eventually
\* reaches Completed: the result is the first element of the output of the
\* completed response, loading is false, the job id is cleared and no poll
\* interval is live.
C1_EventuallyCompleted == \A j \in JobIds : Accepted(j) ~> CompletedWith(j)

\* a late completed response of job1 ended the polling of job2, which no
\* response has reported on yet
C1_Witness ==
    /\ last.op = "statusResponse" /\ last.job = "job1"
    /\ last.resp.status = "completed"
    /\ nextJob = 2 /\ polls["job2"] = 0 /\ statusReqs["job2"] = 0
    /\ predictionId = Null /\ intervals = 0

----------------------------------------------------------------------------
(* Shapes of the response the last handler was given *)

LastStatus == last.op = "statusResponse"

\* HTTP success, a body that parses, no error field
Structural(r) == r.net /\ r.ok /\ r.json /\ ~Truthy(r.err)

\* a status fetch that failed: network, HTTP status, body, error field, or
\* no status field
FetchFailed(r) == ~Structural(r) \/ ~Truthy(r.status)

MalformedCompletion(r) ==
    Structural(r) /\ r.status = "completed" /\ UnusableOutput(r.output)

Idle == ~isLoading /\ predictionId = Null /\ intervals = 0

\* C2: a completed status response with an absent, non-list or empty output
\* stores no result and is handled as an error: the job id is cleared,
\* loading is false and no poll interval is live.
C2_MalformedCompletionIsError ==
    (LastStatus /\ MalformedCompletion(last.resp)) =>
        /\ generatedResult # Undefined
        /\ Idle
        /\ HasBanner => error.type = "error"

\* completed without an output: the job id stays, loading stays, polling ends
C2_Witness ==
    /\ LastStatus /\ MalformedCompletion(last.resp) /\ ~last.resp.output.present
    /\ predictionId = last.job /\ isLoading /\ intervals = 0
    /\ predictionStatus = "completed"

\* C3: a poll whose status fetch failed returns the controller to Idle: job
\* id cleared, loading false, no poll interval live, the error shown.
C3_FetchFailureAborts ==
    (LastStatus /\ FetchFailed(last.resp)) =>
        /\ Idle
        /\ HasBanner => error.type = "error"

\* the fetch of a poll rejected, and the job is polled on
C3_Witness ==
    /\ LastStatus /\ ~last.resp.net
    /\ predictionId = last.job /\ isLoading /\ intervals = 1

\* C4: after Try Again there is no preview, no result, no job id, no status,
\* loading is false and no poll interval is live.
C4_ResetClears ==
    last.op = "tryAgain" =>
        /\ modelPreview = Null /\ generatedResult = Null
        /\ predictionId = Null /\ predictionStatus = Null
        /\ ~isLoading /\ intervals = 0

\* Try Again discarded a job that was being polled
C4_Witness == last.op = "tryAgain" /\ last.job \in JobIds /\ InFlight > 0

\* C5: at most one poll interval is live, and only while a job id is set and
\* the status is neither completed nor failed; completion, failure, a thrown
\* error and reset leave none live.
C5_OneTimer ==
    /\ intervals \in {0, 1}
    /\ intervals = 1 => ShouldPoll(predictionId, predictionStatus)
    /\ (last.op = "tryAgain"
        \/ (LastStatus /\ StatusOutcome(variant, last.resp).kind
                              \in {"completed", "failed", "thrown"}))
          => intervals = 0

\* an interval is live for a job whose status a poll has updated
C5_Witness ==
    /\ intervals = 1 /\ predictionId \in JobIds /\ predictionStatus = "processing"
    /\ LastStatus

\* C6: startPrediction with the model image or the garment URL missing issues
\* no request and changes neither loading, job id nor status; the banner
\* variants show a warning.
C6_MissingInputStaysIdle ==
    [][(last'.op = "startPrediction"
          /\ (~Truthy(modelPreview) \/ ~Truthy(garmentUrl)))
       => /\ submitReqs' = submitReqs /\ statusReqs' = statusReqs
          /\ isLoading' = isLoading /\ ~isLoading'
          /\ predictionId' = predictionId
          /\ predictionStatus' = predictionStatus
          /\ HasBanner => error'.type = "warning"]_vars

\* startPrediction ran with a model image and no garment URL, and warned
C6_Witness ==
    /\ last.op = "startPrediction" /\ Truthy(modelPreview) /\ ~Truthy(garmentUrl)
    /\ HasBanner /\ error.type = "warning" /\ submitReqs = 0

GoodSubmit(r) == Structural(r) /\ Truthy(r.id)

\* C7: a submit response starts polling (job id = its id, status starting,
\* loading true) iff HTTP success, parseable body, no error field and an id;
\* otherwise loading is false, its id is not stored and the error is shown.
C7_SubmitAcceptedIff ==
    last.op = "submitResponse" =>
        IF GoodSubmit(last.resp)
        THEN predictionId = last.resp.id /\ predictionStatus = "starting" /\ isLoading
        ELSE /\ ~isLoading
             /\ predictionId = Null
             /\ HasBanner => error.type = "error"

\* HTTP success with the body {}: undefined is stored as the job id
C7_Witness ==
    /\ last.op = "submitResponse" /\ Structural(last.resp) /\ ~Truthy(last.resp.id)
    /\ predictionId = Undefined /\ predictionStatus = "starting" /\ isLoading

\* C8: a poll response {status: failed, error: e} clears the job id and
\* loading and leaves no poll interval live; the banner variants show a
\* notification whose text contains e.
C8_FailedSurfaced ==
    \A e \in ErrTexts :
        (LastStatus /\ last.resp.net /\ last.resp.ok /\ last.resp.json
            /\ last.resp.status = "failed" /\ last.resp.err = e) =>
            /\ Idle
            /\ HasBanner => Contains(error.message, e)

C8_Witness ==
    /\ LastStatus /\ last.resp.net /\ last.resp.ok /\ last.resp.json
    /\ last.resp.status = "failed" /\ last.resp.err \in ErrTexts
    /\ HasBanner /\ Contains(error.message, last.resp.err) /\ nextJob > 0

\* C9: loading is never true while no submit request and no status request
\* is outstanding and no poll interval is live.
C9_NeverStuck ==
    isLoading => (submitReqs > 0 \/ InFlight > 0 \/ intervals > 0)

\* loading with nothing outstanding, after a submit response without an id
C9_Witness ==
    /\ isLoading /\ submitReqs = 0 /\ InFlight = 0 /\ intervals = 0
    /\ predictionId = Undefined /\ last.op = "submitResponse"

\* a poll of job j, the current job, was answered starting or processing
NonTerminal(j) ==
    /\ LastStatus /\ Structural(last.resp)
    /\ last.resp.status \in {"starting", "processing"}
    /\ last.job = j /\ predictionId = j /\ isLoading /\ intervals = 1

\* checkPredictionStatus ran for job j
Requested(j) == last.op = "tick" /\ last.job = j

KnownStatus == {"starting", "processing", "completed", "failed"}

UnknownStatus(r) == Structural(r) /\ Truthy(r.status) /\ r.status \notin KnownStatus

\* C11: a successful status response whose status is none of starting,
\* processing, completed, failed is handled as an error: the error is shown,
\* the job id is cleared, loading is false, no poll interval is live, and the
\* value is not stored as the status.
C11_UnknownStatusIsError ==
    (LastStatus /\ UnknownStatus(last.resp)) =>
        /\ Idle
        /\ predictionStatus # last.resp.status
        /\ HasBanner => error.type = "error"

\* the status canceled is stored and the job is polled on
C11_Witness ==
    /\ LastStatus /\ UnknownStatus(last.resp)
    /\ predictionStatus = last.resp.status /\ predictionId = last.job
    /\ isLoading /\ intervals = 1 /\ HasBanner

\* C12: a notification shown while the timeout of an earlier showError is
\* pending is not cleared by that earlier timeout.  Timeouts of equal delay
\* fire in the order they were set, and a notification on display was set by
\* the latest showError, so with more than one timeout pending the one that
\* fires belongs to an earlier notification.
C12_ExpiryRestarted ==
    [][(last'.op = "expire" /\ expiry > 1 /\ error # NoError)
          => error' = error]_vars

\* C13: a result is stored only while the status is completed; in
\* particular the result of an earlier job is gone while a later job is
\* submitted or polled.
C13_ResultOnlyWhenCompleted ==
    generatedResult # Null => predictionStatus = "completed"

\* the result of an earlier job is on display while a later job is polled
C13_Witness ==
    /\ Truthy(generatedResult) /\ predictionId \in JobIds /\ isLoading
    /\ predictionStatus \in {"starting", "processing"} /\ intervals = 1

\* C14: after Try Again both inputs are cleared: there is no model image and
\* the garment URL is unset.
C14_ResetClearsInputs ==
    last.op = "tryAgain" => modelPreview = Null /\ ~Truthy(garmentUrl)

\* Try Again cleared the model image and kept the garment URL
C14_Witness ==
    last.op = "tryAgain" /\ modelPreview = Null /\ garmentUrl \in ParsableURLs

\* C15: at page load the garment URL is stored iff the query parameter is
\* present and parses as a URL; a present value that does not parse leaves it
\* unset and shows a warning; an absent parameter leaves it unset and shows
\* nothing.
C15_QueryParameter ==
    last.op = "mount" =>
        /\ Truthy(garmentUrl) <=> (last.job # Null /\ last.job \in ParsableURLs)
        /\ Truthy(garmentUrl) => garmentUrl = last.job
        /\ (last.job # Null /\ last.job \notin ParsableURLs) => error.type = "warning"
        /\ last.job = Null => error = NoError

\* a banner variant loaded with a value that does not parse, and warned
C15_Witness ==
    /\ last.op = "mount" /\ last.job = "not a url"
    /\ HasBanner /\ error.type = "warning" /\ garmentUrl = ""

\* what readAsDataURL yields for the files whose type is not an image type
NonImagePayloads == {f.dataUrl : f \in {g \in Files : ~IsImageType(g)}}

\* C16: a file whose declared type is not an image type is never read, and
\* the model image is never a payload derived from such a file.
C16_NonImageRejected ==
    /\ \A f \in readers : IsImageType(f)
    /\ modelPreview \notin NonImagePayloads

\* a job was submitted with the data URI of a text file as its model image
C16_Witness ==
    /\ last.op = "startPrediction" /\ submitReqs = 1 /\ isLoading
    /\ modelPreview \in NonImagePayloads

\* C17: in the banner variants, after the error and loadend events of a
\* failed read an error notification is on display and the model image is
\* what it was before the read ended.
C17_ReadErrorSurfaced ==
    [][(last'.op = "readError" /\ HasBanner)
          => error'.type = "error" /\ modelPreview' = modelPreview]_vars

\* a read failed: no notification is on display although the timeout of
\* showError is pending, and there is no model image
C17_Witness ==
    /\ last.op = "readError" /\ HasBanner
    /\ error = NoError /\ expiry > 0 /\ modelPreview = Null

\* the capture flow has ended: no modal is open and no getUserMedia call is
\* awaiting its result
CameraEnded ==
    ~showCamera /\ \A n \in 1..MaxStreams : streams[n].state # "pending"

\* C18: once the capture flow has ended, every camera stream that was
\* acquired has been stopped.
C18_StreamsReleased ==
    CameraEnded => \A n \in 1..MaxStreams : streams[n].state # "live"

\* the modal was closed while getUserMedia was pending: its stream is live
\* and no reference to it is left
C18_Witness ==
    /\ CameraEnded /\ streamRef = 0 /\ last.op = "acquired"
    /\ \E n \in 1..MaxStreams : streams[n].state = "live"

JpegFrames == {Frame(f, m) : f \in Facings, m \in BOOLEAN}

\* C19: when a camera capture the user triggered has run, the model image is
\* the JPEG data URI of a captured frame and no camera stream is live.
C19_CaptureOneFrame ==
    last.op \in {"cameraUpload", "takePhoto"} =>
        /\ modelPreview \in JpegFrames
        /\ \A n \in 1..MaxStreams : streams[n].state # "live"

\* Take Photo of variant "inline" has run: no camera was asked for and there
\* is no model image
C19_Witness ==
    /\ last.op = "cameraUpload" /\ variant = "inline" /\ modelPreview = Null
    /\ \A n \in 1..MaxStreams : streams[n].state = "unused"

\* C20: a still taken with the CameraModal is mirrored exactly when the
\* active camera is the front one (facingMode "user"); a still of the back
\* camera (facingMode "environment") is not mirrored.
C20_MirroredIffFront ==
    (last.op = "takePhoto" /\ last.job \in Facings) =>
        modelPreview = Frame(last.job, last.job = "user")

\* A still has been taken with the back camera
C20_Witness ==
    /\ variant = "modal" /\ last.op = "takePhoto" /\ last.job = "environment"
    /\ modelPreview = Frame("environment", TRUE)

\* the last handler was the end of a status request answered HTTP 200 with
\* {status: "failed", error: <reason>}
FailedWithReason ==
    /\ last.op = "statusResponse"
    /\ last.resp.net /\ last.resp.ok /\ last.resp.json
    /\ last.resp.status = "failed" /\ Truthy(last.resp.err)

\* C21: in the variants that validate responses, a status response "failed"
\* that carries a reason makes the recorded status "failed" and shows the
\* reason in the notification.
C21_FailedWithReasonRecorded ==
    (HasBanner /\ FailedWithReason) =>
        /\ predictionStatus = "failed"
        /\ Contains(error.message, last.resp.err)

\* such a response has been handled: the reason is shown, the job id is
\* cleared and the status is the one recorded before
C21_Witness ==
    /\ HasBanner /\ FailedWithReason
    /\ Contains(error.message, last.resp.err)
    /\ predictionId = Null /\ predictionStatus = "starting"

\* the text of the submit button: the loading indicator with the status, or
\* the button's own label
LoadingLabel ==
    IF isLoading
    THEN (IF Truthy(predictionStatus) THEN <<"Status: ", predictionStatus>>
          ELSE <<"Generating...">>)
    ELSE <<"Generate Try-On">>

\* Submitting: POST /run is awaited, no job id has been stored
Submitting == isLoading /\ submitReqs > 0 /\ ~Truthy(predictionId)

\* C22: no status of a finished job is carried forward: while a job is
\* Submitting the loading indicator shows no status, since none has been
\* recorded for the job that is being submitted.
C22_NoStatusCarriedForward ==
    Submitting => LoadingLabel = <<"Generating...">>

\* Generate pressed after a job has completed: the indicator of the new
\* submission shows the finished job's status
C22_Witness ==
    /\ Submitting /\ last.op = "startPrediction"
    /\ Truthy(generatedResult)
    /\ LoadingLabel = <<"Status: ", "completed">>

\* disabled={!modelPreview || !garmentUrl || isLoading} of the submit button
SubmitDisabled == ~Truthy(modelPreview) \/ ~Truthy(garmentUrl) \/ isLoading

\* C23: whenever a job id is set the loading flag is true, so the submit
\* button is disabled for as long as a job is polled.
C23_JobImpliesLoading ==
    Truthy(predictionId) => (isLoading /\ SubmitDisabled)

\* a job id is set and the loading flag is true
C23_Witness ==
    /\ Truthy(predictionId) /\ isLoading /\ SubmitDisabled
    /\ last.op = "submitResponse" /\ intervals = 1

\* the state of the Prediction Lifecycle Controller
controller == <<isLoading, predictionId, predictionStatus, generatedResult>>

\* C24: a response to a status request issued for a job that is no longer the
\* current job (it was resolved, and possibly another job was submitted since)
\* changes no controller state.
C24_LateStatusIgnored ==
    [][(last'.op = "statusResponse" /\ last'.job # predictionId)
           => UNCHANGED controller]_vars

\* a late response for job1 has been handled while job2 is the current job
C24_Witness ==
    /\ last.op = "statusResponse" /\ last.job = "job1"
    /\ predictionId = "job2" /\ predictionStatus = "processing"

\* the controller holds the values Try Again sets, which are the initial ones.
\* predictionStatus is null only initially and after Try Again, and a request
\* is pending in such a state only if it was sent before a Try Again.
AfterReset ==
    /\ isLoading = TryAgainState.isLoading
    /\ predictionId = TryAgainState.predictionId
    /\ predictionStatus = TryAgainState.predictionStatus
    /\ generatedResult = TryAgainState.generatedResult

\* C25: after a reset, a late response to a submit or status request sent
\* before the reset alters no controller state: job id, status, result and
\* loading flag keep their initial values until the next submit.
C25_LateResponseAfterReset ==
    [][(AfterReset /\ last'.op \in {"submitResponse", "statusResponse"})
           => UNCHANGED controller]_vars

\* the response to a submit sent before Try Again has been handled after it:
\* a job is stored and polled, with no model image and the loading flag false
C25_Witness ==
    /\ last.op = "submitResponse" /\ Truthy(predictionId)
    /\ predictionStatus = "starting" /\ intervals = 1
    /\ ~isLoading /\ generatedResult = Null /\ modelPreview = Null

\* the acquired streams whose tracks have not been stopped
LiveStreams == {n \in 1..MaxStreams : streams[n].state = "live"}

\* C26: in the CameraModal variant at most one acquired stream is unstopped
\* at any time, and none is while the modal is closed.
C26_AtMostOneLiveStream ==
    variant = "modal" =>
        /\ Cardinality(LiveStreams) <= 1
        /\ ~showCamera => LiveStreams = {}

\* the modal is open and two streams are live: the facing mode was toggled
\* while getUserMedia was pending and both calls have resolved
C26_Witness ==
    /\ variant = "modal" /\ showCamera /\ last.op = "acquired"
    /\ Cardinality(LiveStreams) = 2
    /\ \E n \in LiveStreams : n # streamRef /\ streams[n].inst = instance

====
